---- MODULE Spec2Model ----
(***************************************************************************)
(* A model of the fp-ts example scripts: the password validation/hashing   *)
(* functions (password.ts, password-errors.ts), and the demonstration      *)
(* pipeline, the semigroup instances and the boolTask wrapper of           *)
(* task-and-either.ts.                                                     *)
(*                                                                         *)
(* Strings that the code inspects character by character (password values) *)
(* are sequences of one-character strings; strings the code only measures  *)
(* or prints (names, messages) are TLA+ strings.  An optional value (an    *)
(* omitted argument or field, i.e. undefined) is <<>>, a present value v   *)
(* is <<v>>.                                                               *)
(***************************************************************************)
EXTENDS Integers, Sequences, FiniteSets, TLC

VARIABLES
    pc,          \* position: of the module's run (the statement to execute next), or
                 \* "call" / "returned" for a single call of one of the functions
    op,          \* the function or example being evaluated
    input,       \* the argument as the caller built it
    specArg,     \* the optional PasswordSpecification handed to validate
    hashFn,      \* the hash function handed to hash
    password,    \* the argument object, before and after the call
    result,      \* the value the evaluation returned
    trace,       \* the functions invoked by the evaluation so far, in order
    sg,          \* a three-element semigroup merge, grouped both ways
    merged,      \* the module's const merged
    console,     \* the argument lists handed to console.log, in order
    boolPc,      \* position of the boolTask invocation
    awaited,     \* the promise boolTask is suspended on
    boolPromise  \* the promise boolTask returned

vars == <<pc, op, input, specArg, hashFn, password, result, trace, sg, merged,
          console, boolPc, awaited, boolPromise>>

callVars == <<op, input, specArg, hashFn, password, result, trace>>
taskVars == <<boolPc, awaited, boolPromise>>

(***************************************************************************)
(* Bounds of the model.                                                    *)
(***************************************************************************)
MaxLen == 8
MaxMinLength == 9
MaxThings == 1
MaxFactor == 3

None == <<>>
Some(v) == <<v>>

BoundedSeq(S, n) == UNION {[1..k -> S] : k \in 0..n}

(***************************************************************************)
(* fp-ts Either.                                                           *)
(***************************************************************************)
left(e) == [_tag |-> "Left", left |-> e]
right(a) == [_tag |-> "Right", right |-> a]
isLeft(ma) == ma._tag = "Left"
isRight(ma) == ma._tag = "Right"

\* An object spread followed by explicit fields: { ...base, k: v, ... }.
Spread(base, fields) ==
    [k \in DOMAIN base \cup DOMAIN fields |->
        IF k \in DOMAIN fields THEN fields[k] ELSE base[k]]

(***************************************************************************)
(* password-errors.ts                                                      *)
(***************************************************************************)
MinLengthValidationError_of(minLength) ==
    [_tag |-> "PasswordMinLengthValidationError",
     minLength |-> minLength,
     message |-> "password fails to meet min length requirement: " \o ToString(minLength)]

CapitalLetterMissingValidationError_of ==
    [_tag |-> "PasswordCapitalLetterMissingValidationError",
     message |-> "password is missing a capital letter"]

(***************************************************************************)
(* password.ts                                                             *)
(***************************************************************************)
of(value) == [_tag |-> "Password", value |-> value, isHashed |-> FALSE]
fromHashed(value) == [_tag |-> "Password", value |-> value, isHashed |-> TRUE]

UpperCase == {"A", "B", "C", "D", "E", "F", "G", "H", "I", "J", "K", "L", "M",
              "N", "O", "P", "Q", "R", "S", "T", "U", "V", "W", "X", "Y", "Z"}

\* /[A-Z]/.test(value)
HasCapital(value) == \E i \in 1..Len(value) : value[i] \in UpperCase

\* A destructuring default: `field = dflt` takes dflt exactly when the field is undefined.
Default(opt, dflt) == IF opt = None THEN dflt ELSE opt[1]

\* The parameter default `= {}` followed by the two field defaults.
DefaultMinLength == 0
DefaultCapitalLetterRequired == FALSE
EmptySpecification == [minLength |-> None, capitalLetterRequired |-> None]
Specification(arg) == Default(arg, EmptySpecification)
\* Variant: the minLength default off by one.
minLengthOfOne(arg) == Default(Specification(arg).minLength, DefaultMinLength + 1)
minLengthOf(arg) == Default(Specification(arg).minLength, DefaultMinLength)
capitalLetterRequiredOf(arg) ==
    Default(Specification(arg).capitalLetterRequired, DefaultCapitalLetterRequired)

\* validate(arg)(p): ret is the Either returned, password the argument object afterwards.
\* Variant: the two rules tested in the opposite order.
validateCapitalFirst(arg, p) ==
    [ret |->
        IF capitalLetterRequiredOf(arg) /\ ~HasCapital(p.value)
        THEN left(CapitalLetterMissingValidationError_of)
        ELSE IF Len(p.value) < minLengthOf(arg)
        THEN left(MinLengthValidationError_of(minLengthOf(arg)))
        ELSE right(Spread(p, [isValidated |-> TRUE])),
     password |-> p]
\* Variant: the capital-letter rule left out.
validateLenient(arg, p) ==
    [ret |->
        IF Len(p.value) < minLengthOf(arg)
        THEN left(MinLengthValidationError_of(minLengthOf(arg)))
        ELSE right(Spread(p, [isValidated |-> TRUE])),
     password |-> p]
\* Variant: isValidated assigned on the argument instead of on a copy.
validateInPlace(arg, p) ==
    LET q == Spread(p, [isValidated |-> TRUE])
    IN  [ret |->
            IF Len(p.value) < minLengthOf(arg)
            THEN left(MinLengthValidationError_of(minLengthOf(arg)))
            ELSE IF capitalLetterRequiredOf(arg) /\ ~HasCapital(p.value)
            THEN left(CapitalLetterMissingValidationError_of)
            ELSE right(q),
         password |-> q]
\* The function as written.
validate(arg, p) ==
    [ret |->
        IF Len(p.value) < minLengthOf(arg)
        THEN left(MinLengthValidationError_of(minLengthOf(arg)))
        ELSE IF capitalLetterRequiredOf(arg) /\ ~HasCapital(p.value)
        THEN left(CapitalLetterMissingValidationError_of)
        ELSE right(Spread(p, [isValidated |-> TRUE])),
     password |-> p]

\* The hash functions the model hands to hash: the demonstration's wrapper, one that
\* always fails, one that fails on some values only, and one that ignores its input.
HashFns == {"wrap", "fail", "partial", "empty"}
HashError == [_tag |-> "Error", message |-> "hash failed"]
HASH == <<"H", "A", "S", "H">>
ApplyHashFn(f, value) ==
    CASE f = "wrap" -> right(HASH \o value \o HASH)
      [] f = "fail" -> left(HashError)
      [] f = "partial" -> IF Len(value) % 2 = 1 THEN left(HashError) ELSE right(value \o value)
      [] f = "empty" -> right(<<>>)

\* hash(f)(p): ret is the Either returned, password the argument object afterwards,
\* calls the invocations of f it made.
\* Variant: isHashed not set on the result.
hashKeepsFlag(f, p) ==
    LET r == ApplyHashFn(f, p.value)
    IN  [ret |-> IF isLeft(r) THEN r ELSE right(Spread(p, [value |-> r.right])),
         password |-> p,
         calls |-> <<"hashFn">>]
\* Variant: a failing hash function answered with a Right.
hashSwallowsFailure(f, p) ==
    LET r == ApplyHashFn(f, p.value)
    IN  [ret |-> IF isLeft(r) THEN right(Spread(p, [isHashed |-> TRUE]))
                 ELSE right(Spread(p, [value |-> r.right, isHashed |-> TRUE])),
         password |-> p,
         calls |-> <<"hashFn">>]
\* E.map over hashFn's result: a Left passes through, a Right's value is rebuilt.
hash(f, p) ==
    LET r == ApplyHashFn(f, p.value)
    IN  [ret |-> IF isLeft(r) THEN r
                 ELSE right(Spread(p, [value |-> r.right, isHashed |-> TRUE])),
         password |-> p,
         calls |-> <<"hashFn">>]

\* E.chain(f)(ma) with f = hash(hashFn): f runs only on a Right.
\* Variant: the hash function invoked on a Left too.
chainAlways(f, ma) ==
    LET e == hash(f, IF isLeft(ma) THEN of(<<>>) ELSE ma.right)
    IN  [ret |-> IF isLeft(ma) THEN ma ELSE e.ret, calls |-> e.calls]
chain(f, ma) ==
    IF isLeft(ma) THEN [ret |-> ma, calls |-> <<>>]
    ELSE LET e == hash(f, ma.right) IN [ret |-> e.ret, calls |-> e.calls]

(***************************************************************************)
(* The inputs of the password examples.                                    *)
(***************************************************************************)
Alphabet == {"a", "A"}
DemoInput == <<"2", "3", "4", "5", "6">>
Strings == BoundedSeq(Alphabet, MaxLen) \cup {DemoInput}

PlainPasswords == {of(s) : s \in Strings} \cup {fromHashed(s) : s \in Strings}
ValidatedPasswords == {Spread(p, [isValidated |-> TRUE]) : p \in PlainPasswords}

OptMinLength == {None} \cup {Some(n) : n \in 0..MaxMinLength}
OptCapital == {None} \cup {Some(b) : b \in BOOLEAN}
SpecArgs ==
    {None} \cup {Some([minLength |-> m, capitalLetterRequired |-> c]) :
                    m \in OptMinLength, c \in OptCapital}

DemoMinLength == 8
DemoSpecification == Some([minLength |-> Some(DemoMinLength), capitalLetterRequired |-> Some(TRUE)])
DemoHashFn == "wrap"

(***************************************************************************)
(* task-and-either.ts: numbers.  A JavaScript number is an IEEE 754 double. *)
(* The model holds the non-negative integer-valued doubles, written        *)
(* hi * Limb + lo with 0 <= lo < Limb, and rounds every exact result to    *)
(* the nearest double (53 significant bits, ties to even).                 *)
(***************************************************************************)
Limb == 2^27
SafeHi == 2^26                      \* hi < SafeHi  iff  the number is below 2^53
FromInt(n) == [hi |-> 0, lo |-> n]
MaxSafeInteger == [hi |-> SafeHi - 1, lo |-> Limb - 1]     \* 2^53 - 1
Two53 == [hi |-> SafeHi, lo |-> 0]                         \* 2^53
Carry(h, l) == [hi |-> h + (l \div Limb), lo |-> l % Limb]

\* The spacing of the doubles around a number: 1 below 2^53, doubling with each binade.
RECURSIVE UlpFrom(_, _)
UlpFrom(h, u) == IF h \div u < SafeHi THEN u ELSE UlpFrom(h, 2 * u)
Ulp(n) == UlpFrom(n.hi, 1)

RoundToDouble(n) ==
    LET u == Ulp(n)
        r == n.lo % u
        down == n.lo - r
        up == down + u
        pick == IF 2 * r < u THEN down
                ELSE IF 2 * r > u THEN up
                ELSE IF (down \div u) % 2 = 0 THEN down ELSE up
    IN  Carry(n.hi, pick)

\* concat: (x, y) => x * y, the exact product rounded to the nearest double; the
\* limb arithmetic gives the exact product while one factor is below Limb
semigroupProduct_concat(x, y) ==
    RoundToDouble(Carry(x.hi * y.hi * Limb + x.hi * y.lo + x.lo * y.hi, x.lo * y.lo))

\* concat: (x, y) => x + y
semigroupSum_concat(x, y) == RoundToDouble(Carry(x.hi + y.hi, x.lo + y.lo))

semigroupPoint_concat(p1, p2) ==
    [x |-> semigroupSum_concat(p1.x, p2.x),
     y |-> semigroupSum_concat(p1.y, p2.y)]

\* getStructSemigroup({ from: semigroupPoint, to: semigroupPoint })
semigroupVector_concat(v1, v2) ==
    [from |-> semigroupPoint_concat(v1.from, v2.from),
     to |-> semigroupPoint_concat(v1.to, v2.to)]

(***************************************************************************)
(* task-and-either.ts: semigroupCustomer.  Names are only measured, so     *)
(* they are TLA+ strings.                                                  *)
(***************************************************************************)
ordNumber_compare(x, y) == IF x < y THEN -1 ELSE IF x > y THEN 1 ELSE 0
\* contramap((s: string) => s.length)(ordNumber)
ordLength_compare(x, y) == ordNumber_compare(Len(x), Len(y))
\* getJoinSemigroup(O).concat = max(O): y when x is strictly below y, else x
\* Variant: the meet (the shorter name) in place of the join.
nameMeet_concat(x, y) == IF ordLength_compare(x, y) = 1 THEN y ELSE x
nameJoin_concat(x, y) == IF ordLength_compare(x, y) = -1 THEN y ELSE x
\* getMonoid<string>().concat: array concatenation
favoriteThings_concat(x, y) == x \o y
\* semigroupAny
semigroupAny_concat(x, y) == x \/ y

semigroupCustomer_concat(a, b) ==
    [name |-> nameJoin_concat(a.name, b.name),
     favoriteThings |-> favoriteThings_concat(a.favoriteThings, b.favoriteThings),
     hasMadePurchase |-> semigroupAny_concat(a.hasMadePurchase, b.hasMadePurchase)]

(***************************************************************************)
(* The inputs of the semigroup examples.                                   *)
(***************************************************************************)
SmallNums == {FromInt(n) : n \in 0..MaxFactor}
SumNums == SmallNums \cup {[hi |-> SafeHi - 1, lo |-> Limb - 4], MaxSafeInteger, Two53,
                           [hi |-> SafeHi, lo |-> 2]}
\* Factors: the small ones, 2^52 + 1 and Number.MAX_SAFE_INTEGER
ProductNums == SmallNums \cup {[hi |-> SafeHi \div 2, lo |-> 1], MaxSafeInteger}
PointNums == {FromInt(1), FromInt(2), Two53}
Points == [x : PointNums, y : PointNums]
VectorNums == {FromInt(1), Two53}
Vectors == [from : [x : VectorNums, y : VectorNums], to : [x : VectorNums, y : VectorNums]]
Names == {"Ryan", "Ryna", "Ryan Aubrey"}
Things == {"coffee", "reading"}
Customers == [name : Names, favoriteThings : BoundedSeq(Things, MaxThings),
              hasMadePurchase : BOOLEAN]

\* Both groupings of a three-element merge, with the intermediate results.
Evaluation(kind, a, b, c, ab, bc, l, r) ==
    [op |-> kind, a |-> a, b |-> b, c |-> c, ab |-> ab, bc |-> bc, left |-> l, right |-> r]

(***************************************************************************)
(* task-and-either.ts: someTask and boolTask.                              *)
(***************************************************************************)
fulfilled(v) == [state |-> "fulfilled", value |-> v]
rejected(e) == [state |-> "rejected", value |-> e]
pending == [state |-> "pending"]

\* async function someTask(id): writes one console line and resolves with undefined.
\* Variant: the promise rejected.
someTaskRejects(id) == [line |-> <<"Some task:", id>>, promise |-> rejected("error")]
someTask(id) == [line |-> <<"Some task:", id>>, promise |-> fulfilled(None)]

\* fold(S)(startWith, as) = as.reduce(S.concat, startWith), with S = semigroupSum
RECURSIVE sum(_, _)
sum(startWith, as) ==
    IF as = <<>> THEN startWith
    ELSE sum(semigroupSum_concat(startWith, Head(as)), Tail(as))

\* sum(0, [1, 2, 3, 4])
sumItems == <<FromInt(1), FromInt(2), FromInt(3), FromInt(4)>>
sumOfItems == sum(FromInt(0), sumItems)

\* console.assert(ok): writes a line only when ok is false
assert(ok) == IF ok THEN <<>> ELSE << <<"Assertion failed">> >>

customer1 == [name |-> "Ryan", favoriteThings |-> <<"coffee">>, hasMadePurchase |-> FALSE]
customer2 == [name |-> "Ryan Aubrey", favoriteThings |-> <<"reading">>, hasMadePurchase |-> TRUE]

NoSg == [op |-> "none"]
NoPromise == [state |-> "none"]

(***************************************************************************)
(* Initial states.  InitRun is the start of the run of task-and-either.ts. *)
(* The other initial states hold the operands of one call of one function: *)
(* the caller has built the arguments and nothing has been evaluated.      *)
(***************************************************************************)
NothingCalled ==
    /\ result = None
    /\ trace = <<>>
    /\ merged = None
    /\ console = <<>>
    /\ boolPc = "idle"
    /\ awaited = NoPromise
    /\ boolPromise = NoPromise

InitRun ==
    /\ pc = "task"
    /\ op = "none"
    /\ input = None
    /\ specArg = None
    /\ hashFn = "none"
    /\ password = None
    /\ sg = NoSg
    /\ NothingCalled

InitValidate ==
    /\ pc = "call"
    /\ op = "validate"
    /\ \E p \in PlainPasswords, arg \in SpecArgs :
          /\ input = p
          /\ password = p
          /\ specArg = arg
    /\ hashFn = "none"
    /\ sg = NoSg
    /\ NothingCalled

InitHash ==
    /\ pc = "call"
    /\ op = "hash"
    /\ \E p \in PlainPasswords \cup ValidatedPasswords, f \in HashFns :
          /\ input = p
          /\ password = p
          /\ hashFn = f
    /\ specArg = None
    /\ sg = NoSg
    /\ NothingCalled

Operands(kind) ==
    CASE kind = "sum" -> SumNums
      [] kind = "product" -> ProductNums
      [] kind = "point" -> Points
      [] kind = "vector" -> Vectors
      [] kind = "customer" -> Customers

\* The factors of a three-way product: at most one of them at or above Limb, so
\* that each x * y of either grouping has a factor below Limb.
Factors(kind, a, b, c) ==
    kind = "product" =>
        \/ a.hi = 0 /\ b.hi = 0
        \/ a.hi = 0 /\ c.hi = 0
        \/ b.hi = 0 /\ c.hi = 0

InitConcat ==
    /\ pc = "call"
    /\ \E kind \in {"sum", "product", "point", "vector", "customer"} :
          /\ op = kind
          /\ \E a \in Operands(kind), b \in Operands(kind), c \in Operands(kind) :
                /\ Factors(kind, a, b, c)
                /\ sg = Evaluation(kind, a, b, c, None, None, None, None)
    /\ input = None
    /\ specArg = None
    /\ hashFn = "none"
    /\ password = None
    /\ NothingCalled

Init == InitRun \/ InitValidate \/ InitHash \/ InitConcat

(***************************************************************************)
(* Single calls of the functions.                                          *)
(***************************************************************************)
Return ==
    /\ pc' = "returned"
    /\ UNCHANGED <<merged, console>>
    /\ UNCHANGED taskVars

\* Password.validate(arg)(p)
CallValidate ==
    /\ pc = "call"
    /\ op = "validate"
    /\ LET e == validate(specArg, password)
       IN  /\ password' = e.password
           /\ result' = e.ret
    /\ trace' = <<"validate">>
    /\ UNCHANGED <<op, input, specArg, hashFn, sg>>
    /\ Return

\* Password.hash(f)(p)
CallHash ==
    /\ pc = "call"
    /\ op = "hash"
    /\ LET e == hash(hashFn, password)
       IN  /\ password' = e.password
           /\ result' = e.ret
           /\ trace' = <<"hash">> \o e.calls
    /\ UNCHANGED <<op, input, specArg, hashFn, sg>>
    /\ Return

\* semigroupSum.concat, grouped both ways
ConcatSum ==
    /\ pc = "call"
    /\ op = "sum"
    /\ LET ab == semigroupSum_concat(sg.a, sg.b)
           bc == semigroupSum_concat(sg.b, sg.c)
       IN  sg' = Evaluation("sum", sg.a, sg.b, sg.c, ab, bc,
                            semigroupSum_concat(ab, sg.c), semigroupSum_concat(sg.a, bc))
    /\ UNCHANGED callVars
    /\ Return

\* semigroupProduct.concat, grouped both ways
ConcatProduct ==
    /\ pc = "call"
    /\ op = "product"
    /\ LET ab == semigroupProduct_concat(sg.a, sg.b)
           bc == semigroupProduct_concat(sg.b, sg.c)
       IN  sg' = Evaluation("product", sg.a, sg.b, sg.c, ab, bc,
                            semigroupProduct_concat(ab, sg.c), semigroupProduct_concat(sg.a, bc))
    /\ UNCHANGED callVars
    /\ Return

\* semigroupPoint.concat, grouped both ways
ConcatPoint ==
    /\ pc = "call"
    /\ op = "point"
    /\ LET ab == semigroupPoint_concat(sg.a, sg.b)
           bc == semigroupPoint_concat(sg.b, sg.c)
       IN  sg' = Evaluation("point", sg.a, sg.b, sg.c, ab, bc,
                            semigroupPoint_concat(ab, sg.c), semigroupPoint_concat(sg.a, bc))
    /\ UNCHANGED callVars
    /\ Return

\* semigroupVector.concat, grouped both ways
ConcatVector ==
    /\ pc = "call"
    /\ op = "vector"
    /\ LET ab == semigroupVector_concat(sg.a, sg.b)
           bc == semigroupVector_concat(sg.b, sg.c)
       IN  sg' = Evaluation("vector", sg.a, sg.b, sg.c, ab, bc,
                            semigroupVector_concat(ab, sg.c), semigroupVector_concat(sg.a, bc))
    /\ UNCHANGED callVars
    /\ Return

\* semigroupCustomer.concat, grouped both ways; ab is the two-customer merge
ConcatCustomer ==
    /\ pc = "call"
    /\ op = "customer"
    /\ LET ab == semigroupCustomer_concat(sg.a, sg.b)
           bc == semigroupCustomer_concat(sg.b, sg.c)
       IN  sg' = Evaluation("customer", sg.a, sg.b, sg.c, ab, bc,
                            semigroupCustomer_concat(ab, sg.c), semigroupCustomer_concat(sg.a, bc))
    /\ UNCHANGED callVars
    /\ Return

(***************************************************************************)
(* The run of task-and-either.ts, statement by statement in source order.  *)
(* Statements that only evaluate an expression and drop its value (lines   *)
(* 92-93, 153-156, 198-203) change no variable and are not steps.          *)
(***************************************************************************)
\* line 13: task(), i.e. someTask(id) with id = 'abc'; the promise it returns is dropped
InvokeTask ==
    /\ pc = "task"
    /\ console' = Append(console, someTask("abc").line)
    /\ pc' = "boolTask"
    /\ UNCHANGED <<sg, merged>>
    /\ UNCHANGED callVars
    /\ UNCHANGED taskVars

\* line 29: boolTask(), up to its await: someTask('1234') has run, the promise
\* boolTask returned is pending
InvokeBoolTask ==
    /\ pc = "boolTask"
    /\ LET t == someTask("1234")
       IN  /\ console' = Append(console, t.line)
           /\ awaited' = t.promise
    /\ boolPromise' = pending
    /\ boolPc' = "awaiting"
    /\ pc' = "pipeline"
    /\ UNCHANGED <<sg, merged>>
    /\ UNCHANGED callVars

\* lines 31-40, pipeline(s), first stage: Password.of.  The module passes '23456'.
PipelineOf ==
    /\ pc = "pipeline"
    /\ \E s \in Strings :
          /\ input' = s
          /\ result' = of(s)
    /\ op' = "pipeline"
    /\ pc' = "validate"
    /\ specArg' = DemoSpecification
    /\ hashFn' = DemoHashFn
    /\ password' = None
    /\ trace' = <<"of">>
    /\ UNCHANGED <<sg, merged, console>>
    /\ UNCHANGED taskVars

\* pipeline(s), second stage: Password.validate({ minLength: 8, capitalLetterRequired: true })
PipelineValidate ==
    /\ pc = "validate"
    /\ LET e == validate(specArg, result)
       IN  /\ result' = e.ret
           /\ password' = e.password
    /\ trace' = Append(trace, "validate")
    /\ pc' = "chain"
    /\ UNCHANGED <<op, input, specArg, hashFn, sg, merged, console>>
    /\ UNCHANGED taskVars

\* pipeline(s), third stage: E.chain(Password.hash(value => E.right(`HASH${value}HASH`)))
PipelineChain ==
    /\ pc = "chain"
    /\ LET e == chain(hashFn, result)
       IN  /\ result' = e.ret
           /\ trace' = trace \o (IF isLeft(result) THEN <<>> ELSE <<"hash">>) \o e.calls
    /\ pc' = "mapLeft"
    /\ UNCHANGED <<op, input, specArg, hashFn, password, sg, merged, console>>
    /\ UNCHANGED taskVars

\* lines 37-43: console.log(pipe(s, pipeline, E.mapLeft(e => e.message)))
PipelinePrint ==
    /\ pc = "mapLeft"
    /\ console' = Append(console,
                         <<IF isLeft(result) THEN left(result.left.message) ELSE result>>)
    /\ pc' = "sum"
    /\ UNCHANGED <<sg, merged>>
    /\ UNCHANGED callVars
    /\ UNCHANGED taskVars

\* lines 173-175: console.log(sum(0, [1, 2, 3, 4]))
PrintSum ==
    /\ pc = "sum"
    /\ input' = <<FromInt(0), sumItems>>
    /\ result' = sumOfItems
    /\ console' = Append(console, <<sumOfItems>>)
    /\ op' = "fold"
    /\ trace' = <<"fold">>
    /\ specArg' = None
    /\ hashFn' = "none"
    /\ password' = None
    /\ pc' = "foldProduct"
    /\ UNCHANGED <<sg, merged>>
    /\ UNCHANGED taskVars

\* line 177: console.log(fold(semigroupProduct)): a function is printed, nothing is folded
PrintFoldProduct ==
    /\ pc = "foldProduct"
    /\ console' = Append(console, <<[function |-> "fold(semigroupProduct)"]>>)
    /\ pc' = "merge"
    /\ UNCHANGED <<sg, merged>>
    /\ UNCHANGED callVars
    /\ UNCHANGED taskVars

\* lines 246-249: const merged = semigroupCustomer.concat(customer1, customer2), and
\* the three assert calls on it
MergeCustomers ==
    /\ pc = "merge"
    /\ LET m == semigroupCustomer_concat(customer1, customer2)
       IN  /\ merged' = m
           /\ result' = m
           /\ console' = console \o assert(m.name = "Ryan Aubrey")
                                 \o assert(Len(m.favoriteThings) = 2)
                                 \o assert(m.hasMadePurchase)
    /\ op' = "merge"
    /\ input' = <<customer1, customer2>>
    /\ trace' = <<"concat">>
    /\ pc' = "printMerged"
    /\ UNCHANGED <<specArg, hashFn, password, sg>>
    /\ UNCHANGED taskVars

\* line 250: console.log('Successfully merged customer: ', merged.name)
PrintMerged ==
    /\ pc = "printMerged"
    /\ console' = Append(console, <<"Successfully merged customer: ", merged.name>>)
    /\ pc' = "end"
    /\ UNCHANGED <<sg, merged>>
    /\ UNCHANGED callVars
    /\ UNCHANGED taskVars

\* boolTask(), resumed from the microtask queue once the module's statements have
\* run: return true, or the catch's return false
ResumeBoolTask ==
    /\ pc = "end"
    /\ boolPc = "awaiting"
    /\ boolPromise' = IF awaited.state = "fulfilled" THEN fulfilled(TRUE) ELSE fulfilled(FALSE)
    /\ boolPc' = "done"
    /\ UNCHANGED <<pc, sg, merged, console, awaited>>
    /\ UNCHANGED callVars

RunNext ==
    \/ InvokeTask
    \/ InvokeBoolTask
    \/ PipelineOf
    \/ PipelineValidate
    \/ PipelineChain
    \/ PipelinePrint
    \/ PrintSum
    \/ PrintFoldProduct
    \/ MergeCustomers
    \/ PrintMerged
    \/ ResumeBoolTask

CallNext ==
    \/ CallValidate
    \/ CallHash
    \/ ConcatSum
    \/ ConcatProduct
    \/ ConcatPoint
    \/ ConcatVector
    \/ ConcatCustomer

Next == RunNext \/ CallNext

Spec == Init /\ [][Next]_vars

\* The run of the module alone.  Node executes the module's statements one after the
\* other and then drains the microtask queue, so a step that can be taken is taken.
RunSpec == InitRun /\ [][RunNext]_vars /\ WF_vars(RunNext)

(***************************************************************************)
(* The claims.                                                             *)
(***************************************************************************)
ValidateDone == pc = "returned" /\ op = "validate"
HashDone == pc = "returned" /\ op = "hash"

\* The fields of the specification as the caller wrote them.
GivenMinLength == IF specArg = None THEN None ELSE specArg[1].minLength
GivenCapital == IF specArg = None THEN None ELSE specArg[1].capitalLetterRequired
TooShort == GivenMinLength # None /\ Len(input.value) < GivenMinLength[1]
LongEnough == GivenMinLength = None \/ Len(input.value) >= GivenMinLength[1]

\* C1: a password shorter than the specification's minLength is answered with a Left
\* holding a MinLengthValidationError carrying that minLength, whatever
\* capitalLetterRequired is and whether or not the value has a capital letter.
C1_MinLengthFirst ==
    (ValidateDone /\ TooShort) =>
        /\ isLeft(result)
        /\ result.left._tag = "PasswordMinLengthValidationError"
        /\ result.left.minLength = GivenMinLength[1]

\* C1 witness: both rules fail and validate has answered.
C1_Witness ==
    /\ ValidateDone
    /\ TooShort
    /\ GivenCapital = Some(TRUE)
    /\ ~HasCapital(input.value)
    /\ Len(input.value) > 0
    /\ isLeft(result)

\* C2: a password of sufficient length without an uppercase letter, validated with
\* capitalLetterRequired true, is answered with a Left holding a
\* CapitalLetterMissingValidationError.
C2_CapitalMissing ==
    (ValidateDone /\ LongEnough /\ GivenCapital = Some(TRUE) /\ ~HasCapital(input.value)) =>
        /\ isLeft(result)
        /\ result.left._tag = "PasswordCapitalLetterMissingValidationError"

C2_Witness ==
    /\ ValidateDone
    /\ GivenMinLength # None
    /\ GivenMinLength[1] >= 2
    /\ Len(input.value) >= GivenMinLength[1]
    /\ GivenCapital = Some(TRUE)
    /\ ~HasCapital(input.value)
    /\ isLeft(result)

\* C3: a password satisfying both constraints is answered with a Right holding a
\* password with the same _tag, value and isHashed, and the argument is not modified.
C3_ValidUnchanged ==
    (ValidateDone /\ LongEnough /\ (GivenCapital = Some(TRUE) => HasCapital(input.value))) =>
        /\ isRight(result)
        /\ result.right._tag = input._tag
        /\ result.right.value = input.value
        /\ result.right.isHashed = input.isHashed
        /\ password = input

C3_Witness ==
    /\ ValidateDone
    /\ GivenMinLength # None
    /\ GivenMinLength[1] >= 2
    /\ Len(input.value) >= GivenMinLength[1]
    /\ GivenCapital = Some(TRUE)
    /\ HasCapital(input.value)
    /\ input.isHashed
    /\ isRight(result)

\* C4: when the hash function returns Right for the password's value, hash returns a
\* Right holding a password with isHashed true, the value the hash function produced,
\* and the remaining fields of the argument.
C4_HashSucceeds ==
    (HashDone /\ isRight(ApplyHashFn(hashFn, input.value))) =>
        /\ isRight(result)
        /\ result.right.isHashed = TRUE
        /\ result.right.value = ApplyHashFn(hashFn, input.value).right
        /\ DOMAIN result.right = DOMAIN input
        /\ \A k \in DOMAIN input \ {"value", "isHashed"} : result.right[k] = input[k]

C4_Witness ==
    /\ HashDone
    /\ hashFn = "wrap"
    /\ ~input.isHashed
    /\ "isValidated" \in DOMAIN input
    /\ Len(input.value) > 0
    /\ isRight(result)
    /\ result.right.isHashed

\* C5: when the hash function returns Left(e) for the password's value, hash returns
\* exactly Left(e), and the argument keeps its value and isHashed.
C5_HashFails ==
    (HashDone /\ isLeft(ApplyHashFn(hashFn, input.value))) =>
        /\ result = left(HashError)
        /\ password = input

C5_Witness ==
    /\ HashDone
    /\ hashFn = "partial"
    /\ isLeft(result)
    /\ ~input.isHashed

\* C6: an omitted minLength behaves as 0 and an omitted capitalLetterRequired as
\* false, whether the whole specification or one field is left out; validate() is a
\* Right for every password.
FilledIn ==
    Some([minLength |-> IF GivenMinLength = None THEN Some(0) ELSE GivenMinLength,
          capitalLetterRequired |-> IF GivenCapital = None THEN Some(FALSE) ELSE GivenCapital])
C6_Defaults ==
    (ValidateDone /\ (GivenMinLength = None \/ GivenCapital = None)) =>
        /\ result = validate(FilledIn, input).ret
        /\ (GivenMinLength = None =>
               (isRight(result) \/ result.left._tag # "PasswordMinLengthValidationError"))
        /\ (GivenCapital = None =>
               (isRight(result) \/ result.left._tag # "PasswordCapitalLetterMissingValidationError"))
        /\ ((GivenMinLength = None /\ GivenCapital = None) => isRight(result))

C6_Witness ==
    /\ ValidateDone
    /\ specArg = None
    /\ input.value = <<>>
    /\ isRight(result)

\* C7: semigroupCustomer.concat(a, b) has as name one of the two names, of maximal
\* length, as favoriteThings a's followed by b's, and as hasMadePurchase the
\* disjunction of the two flags.
Merged(kind) == pc = "returned" /\ sg.op = kind
C7_CustomerMerge ==
    /\ (pc \in {"printMerged", "end"}) =>
          /\ merged = [name |-> "Ryan Aubrey", favoriteThings |-> <<"coffee", "reading">>,
                       hasMadePurchase |-> TRUE]
          \* no assert call wrote a line: five lines before line 250, six after
          /\ Len(console) = IF pc = "end" THEN 6 ELSE 5
    /\ Merged("customer") =>
          /\ sg.ab.name \in {sg.a.name, sg.b.name}
          /\ Len(sg.ab.name) >= Len(sg.a.name)
          /\ Len(sg.ab.name) >= Len(sg.b.name)
          /\ Len(sg.ab.favoriteThings) = Len(sg.a.favoriteThings) + Len(sg.b.favoriteThings)
          /\ \A i \in 1..Len(sg.a.favoriteThings) :
                sg.ab.favoriteThings[i] = sg.a.favoriteThings[i]
          /\ \A i \in 1..Len(sg.b.favoriteThings) :
                sg.ab.favoriteThings[Len(sg.a.favoriteThings) + i] = sg.b.favoriteThings[i]
          /\ sg.ab.hasMadePurchase = (sg.a.hasMadePurchase \/ sg.b.hasMadePurchase)

\* C7 witness: the merge the module asserts on, as a single call.
C7_Witness ==
    /\ Merged("customer")
    /\ sg.a = [name |-> "Ryan", favoriteThings |-> <<"coffee">>, hasMadePurchase |-> FALSE]
    /\ sg.b = [name |-> "Ryan Aubrey", favoriteThings |-> <<"reading">>, hasMadePurchase |-> TRUE]
    /\ sg.ab = [name |-> "Ryan Aubrey", favoriteThings |-> <<"coffee", "reading">>,
                hasMadePurchase |-> TRUE]

\* C8: every invocation of boolTask eventually completes; its promise is never
\* rejected, and it is fulfilled with true, with false only on a rejected someTask.
C8_BoolTask ==
    /\ (boolPc = "awaiting") ~> (boolPc = "done")
    /\ [](boolPromise.state # "rejected")
    /\ [](boolPc = "done" =>
            /\ boolPromise = fulfilled(TRUE)
            /\ awaited.state = "fulfilled")
    /\ []((boolPc = "done" /\ boolPromise.state = "fulfilled" /\ boolPromise.value = FALSE)
            => awaited.state = "rejected")

C8_Witness ==
    /\ boolPc = "done"
    /\ boolPromise = fulfilled(TRUE)
    /\ Len(console) >= 2
    /\ console[2] = <<"Some task:", "1234">>

\* C9: in the demonstration pipeline validation runs before hashing and the hash
\* function is not invoked when validation fails; the result is
\* Right{value: HASH + s + HASH, isHashed: true} exactly when s has at least 8
\* characters and a capital letter, and else the Left of the first failing rule.
PipelineOk == Len(input) >= 8 /\ HasCapital(input)
C9_Pipeline ==
    (op = "pipeline") =>
        /\ trace \in {<<"of">>, <<"of", "validate">>, <<"of", "validate", "hash", "hashFn">>}
        /\ ("hashFn" \in {trace[i] : i \in 1..Len(trace)}) => PipelineOk
        /\ (pc \in {"mapLeft", "sum"}) =>
              /\ isRight(result) <=> PipelineOk
              /\ PipelineOk =>
                    /\ result.right.value = HASH \o input \o HASH
                    /\ result.right.isHashed = TRUE
                    /\ trace = <<"of", "validate", "hash", "hashFn">>
              /\ (Len(input) < 8) =>
                    /\ isLeft(result)
                    /\ result.left._tag = "PasswordMinLengthValidationError"
                    /\ result.left.minLength = 8
                    /\ trace = <<"of", "validate">>
              /\ (Len(input) >= 8 /\ ~HasCapital(input)) =>
                    /\ isLeft(result)
                    /\ result.left._tag = "PasswordCapitalLetterMissingValidationError"
                    /\ trace = <<"of", "validate">>
        /\ (pc = "sum" /\ input = DemoInput) =>
              console[Len(console)] =
                  <<left("password fails to meet min length requirement: 8")>>

C9_Witness ==
    /\ op = "pipeline"
    /\ pc = "sum"
    /\ input = DemoInput
    /\ isLeft(result)
    /\ console[Len(console)] = <<left("password fails to meet min length requirement: 8")>>

\* The pipeline's other outcome: a value that passes validation is hashed.
C9_HashedReached ==
    /\ op = "pipeline"
    /\ pc = "sum"
    /\ isRight(result)
    /\ result.right.isHashed

\* C10 as stated: for each of the five semigroups, and all values of the type,
\* concat(concat(a, b), c) equals concat(a, concat(b, c)).
Semigroups == {"sum", "product", "point", "vector", "customer"}
C10_ProductDiverges ==
    /\ Merged("product")
    /\ sg.a = [hi |-> SafeHi \div 2, lo |-> 1] /\ sg.b = FromInt(3) /\ sg.c = FromInt(3)
    /\ sg.ab = [hi |-> 3 * (SafeHi \div 2), lo |-> 4]
    /\ sg.bc = FromInt(9)
    /\ sg.left = [hi |-> 9 * (SafeHi \div 2), lo |-> 16]
    /\ sg.right = [hi |-> 9 * (SafeHi \div 2), lo |-> 8]

\* C10, semigroupPoint and semigroupVector: the coordinates are added with
\* semigroupSum, so one coordinate at 2^53 is enough.
C10_PointDiverges ==
    /\ Merged("point")
    /\ sg.a.x = Two53 /\ sg.b.x = FromInt(1) /\ sg.c.x = FromInt(1)
    /\ sg.left.x = Two53
    /\ sg.right.x = [hi |-> SafeHi, lo |-> 2]
C10_VectorDiverges ==
    /\ Merged("vector")
    /\ sg.a.to.y = Two53 /\ sg.b.to.y = FromInt(1) /\ sg.c.to.y = FromInt(1)
    /\ sg.left.to.y = Two53
    /\ sg.right.to.y = [hi |-> SafeHi, lo |-> 2]

\* C10, semigroupCustomer: the two groupings agree for every customer.
C10_CustomerAssociative ==
    Merged("customer") => sg.left = sg.right

\* Customers whose names have equal lengths and differ, merged both ways.
C10_EqualLengthNames ==
    /\ Merged("customer")
    /\ sg.a.name = "Ryan" /\ sg.b.name = "Ryna" /\ sg.c.name = "Ryan"
    /\ sg.left = sg.right

\* C10, the extent of the divergence.  Below 2^53 every integer is a double, so
\* sums and products are exact: the two groupings differ only when an operand or a
\* result is at or above 2^53.
RECURSIVE Safe(_, _)
Safe(kind, v) ==
    CASE kind \in {"sum", "product"} -> v.hi < SafeHi
      [] kind = "point" -> Safe("sum", v.x) /\ Safe("sum", v.y)
      [] kind = "vector" -> Safe("point", v.from) /\ Safe("point", v.to)
      [] kind = "customer" -> TRUE
AllSafe ==
    \A v \in {sg.a, sg.b, sg.c, sg.ab, sg.bc, sg.left, sg.right} : Safe(sg.op, v)
C10_AssociativeWhenExact ==
    (pc = "returned" /\ sg.op \in Semigroups /\ AllSafe) => sg.left = sg.right

\* A product at the top of the exact range: 1 * Number.MAX_SAFE_INTEGER * 1.
C10_ExactProduct ==
    /\ Merged("product")
    /\ AllSafe
    /\ sg.a = FromInt(1) /\ sg.b = MaxSafeInteger /\ sg.c = FromInt(1)
    /\ sg.left = MaxSafeInteger /\ sg.right = MaxSafeInteger

====
